---- MODULE Spec2Model ----
(***************************************************************************)
(* ChainGuard multi-agent orchestration: ADKOrchestrator                   *)
(* (orchestrator/adk_orchestrator.py), BaseChainGuardAgent.execute         *)
(* (agents/base_adk_agent.py), ADKMemoryManager                            *)
(* (memory/adk_memory_manager.py) and the validation step of               *)
(* RiskSynthesizerAgent (agents/risk_synthesizer_agent.py).                *)
(*                                                                         *)
(* Time: `now' is the wall clock in minutes (cache freshness, cache key    *)
(* day); `elapsed' is the time in seconds a unit has spent inside          *)
(* asyncio.wait_for.  Scores are integers 0..100, confidences are tenths.  *)
(* hashlib.md5 is taken to be injective on the inputs of the model, so a   *)
(* cache key is the pair it is the digest of.                              *)
(*                                                                         *)
(* Spec runs assess_protocol_risk; SynSpec applies the synthesizer to      *)
(* given upstream results; CacheSpec applies the two cache methods to      *)
(* given assessments; MemSpec drives the session store of ADKMemoryManager;*)
(* ScoreSpec applies the scoring of the synthesizer (components, weighted  *)
(* score, consensus, findings) to given unit results, with exact rational  *)
(* arithmetic; RunsSpec starts overlapping calls of assess_protocol_risk   *)
(* and gives each its session id; HistSpec drives the units' long-lived    *)
(* assessment histories through BaseChainGuardAgent.execute.               *)
(***************************************************************************)
EXTENDS Integers, Sequences, FiniteSets, TLC

VARIABLES
    now,            \* datetime.utcnow(), minutes
    adk,            \* how the installed google.adk answers the orchestrator
    redis_client,   \* memory_manager.redis_client: "none" | "up" | "down"
    redis,          \* contents of the backing store: cache key -> entry
    sessions,       \* memory_manager.sessions: session id -> AgentSession
    pc,             \* position of assess_protocol_risk
    run,            \* locals of the current call of assess_protocol_risk
    ustate,         \* per unit: "idle" | "running" | "returned"
    attempts,       \* per unit: calls of analyze made by _execute_with_timeout
    elapsed,        \* per unit: seconds spent inside wait_for
    waits,          \* per unit: the asyncio.sleep delays of the retry loop
    execResult,     \* per unit: what agent.execute returned
    unitOut,        \* per unit: what _execute_agent_with_runner returned
    compiled,       \* locals of _compile_final_assessment (lines 363-371)
    outcome,        \* what assess_protocol_risk gave its caller
    synIn,          \* previous_results handed to RiskSynthesizerAgent.analyze
    synOut,         \* what RiskSynthesizerAgent.analyze returned for synIn
    synScore,       \* final_risk_score of the synthesis, in hundredths
    synData,        \* result_data of a completed synthesis (lines 136-140)
    evicted,        \* ids of the sessions cleanup_old_sessions has removed
    unitStore,      \* per analysis unit: its last call of store_agent_result
    written,        \* cache key -> the assessment last handed to _cache_assessment
    readBack,       \* what the last call of _get_cached_assessment returned
    held,           \* the assessment object after _cache_assessment returned
    scoreIn,        \* agent_results the synthesis engine is given
    hashSeed,       \* the interpreter's string hash seed (PYTHONHASHSEED)
    scoreOut,       \* the result_data of the syntheses made of scoreIn, in order
    secs,           \* int(datetime.utcnow().timestamp()), seconds
    inflight,       \* per caller: session id of its call of assess_protocol_risk
    agent_memories, \* per unit: AgentMemory.historical_assessments
    appended,       \* per unit: entries appended to its history so far
    lastExec        \* the last unit execution and the history it started from

tierVars == <<synScore, synData>>
memVars == <<evicted, unitStore>>
cacheVars == <<written, readBack, held>>
scoreVars == <<scoreIn, hashSeed, scoreOut>>
runsVars == <<secs, inflight>>
histVars == <<agent_memories, appended, lastExec>>
engineVars == <<scoreVars, runsVars, histVars>>

vars == <<now, adk, redis_client, redis, sessions, pc, run, ustate, attempts,
          elapsed, waits, execResult, unitOut, compiled, outcome, synIn, synOut,
          synScore, synData, evicted, unitStore, written, readBack, held,
          scoreIn, hashSeed, scoreOut, secs, inflight, agent_memories, appended,
          lastExec>>

None == "None"

(***************************************************************************)
(* Bounds of the model.                                                    *)
(***************************************************************************)
MaxTicks == 2          \* clock steps explored
MaxCacheEntries == 1   \* entries the backing store holds at start
MaxSessions == 2       \* sessions create_session is asked for
MaxStores == 3         \* calls of store_agent_result made in all
MaxSyntheses == 2      \* syntheses made of the same agent_results
MaxSeconds == 3        \* clock seconds in which runs are started
MaxUpdates == 102      \* successful unit executions, both units together

(***************************************************************************)
(* Program constants.                                                      *)
(***************************************************************************)
cache_ttl_minutes == 10
AGENT_TIMEOUT_SECONDS == 120
max_retries == 3
DayMinutes == 24 * 60     \* the cache key changes with the calendar day
max_age_hours == 24
HourMinutes == DayMinutes \div 24
\* the session store is watched at the maximum age and one step past it
SweepStep == max_age_hours * HourMinutes
SweepHorizon == 2 * SweepStep

TickStep == cache_ttl_minutes \div 2
StartTime == DayMinutes - cache_ttl_minutes      \* 23:50 of day 0
DayOf(t) == t \div DayMinutes

Subjects == {"Aave V3", "FooBar"}
supported_protocols ==
    {"Aave V3", "Lido", "EigenLayer", "Ethena", "Pendle Finance", "Uniswap V4"}

data_hunter == "data_hunter"
protocol_analyst == "protocol_analyst"
market_intelligence == "market_intelligence"
risk_synthesizer == "risk_synthesizer"

AnalysisUnits == {protocol_analyst, market_intelligence}
expected_agents == {data_hunter, protocol_analyst, market_intelligence}
Agents == expected_agents \cup {risk_synthesizer}

\* seconds one call of analyze takes before it returns or raises: a quick
\* call, and one that is still running when the timeout expires
Durations == {1, AGENT_TIMEOUT_SECONDS + 1}

(***************************************************************************)
(* ProtocolValidator.is_supported.  Neither subject of the model is a      *)
(* variation or a substring of a supported name other than by exact match. *)
(***************************************************************************)
is_supported(p) == p # "" /\ p \in supported_protocols

(***************************************************************************)
(* pydantic models (models/response_models.py): a field without a default  *)
(* is required, and constructing the model without it raises               *)
(* ValidationError; keyword arguments that are not fields are ignored.     *)
(***************************************************************************)
ComponentRiskScore_required ==
    {"security", "financial", "governance", "social", "technical"}
DataQuality_required ==
    {"overall_score", "completeness", "freshness", "accuracy", "sources_validated"}

\* the keyword arguments the orchestrator passes (lines 91, 93, 375-390, 428, 430)
ComponentRiskScore_kwargs == {"security", "liquidity", "governance", "technical"}
DataQuality_kwargs ==
    {"completeness", "freshness", "reliability", "source_count", "last_updated"}

Constructs(required, kwargs) == required \subseteq kwargs

Raised == [kind |-> "exception"]

\* ProtocolInfo(name=protocol_name, normalized_name=...)
ProtocolInfo(name) == [name |-> name]

(***************************************************************************)
(* ADKOrchestrator._create_error_assessment: the arguments of              *)
(* RiskAssessment(...) are evaluated first, so a ValidationError of        *)
(* ComponentRiskScore or DataQuality leaves the method as an exception.    *)
(***************************************************************************)
create_error_assessment(protocol_name, session_id, error_type) ==
    IF /\ Constructs(ComponentRiskScore_required, ComponentRiskScore_kwargs)
       /\ Constructs(DataQuality_required, DataQuality_kwargs)
    THEN [kind |-> "error_assessment", protocol |-> ProtocolInfo(protocol_name),
          session_id |-> session_id, error_type |-> error_type,
          overall_risk_score |-> 100, risk_level |-> "critical",
          confidence |-> 0,
          component_scores |-> [k \in ComponentRiskScore_required |-> 100]]
    ELSE Raised

(***************************************************************************)
(* ADKOrchestrator._generate_cache_key and _get_cached_assessment.         *)
(***************************************************************************)
generate_cache_key(protocol_name, t) == <<protocol_name, DayOf(t)>>

Miss == [kind |-> "miss"]           \* the method returns None
Garbage == [kind |-> "garbage"]     \* bytes json.loads rejects
NoTimestamp == [kind |-> "no_timestamp"]   \* a JSON dict without 'timestamp'

IsFresh(entry, t) == t - entry.timestamp < cache_ttl_minutes

get_cached_assessment(cache_key, client, store, t) ==
    IF client = "none" THEN Miss
    ELSE IF client = "down" THEN Miss           \* get raises, caught at 470
    ELSE IF cache_key \notin DOMAIN store THEN Miss
    ELSE LET cached_data == store[cache_key] IN
         IF cached_data.kind = "garbage" THEN Miss   \* json.loads raises
         ELSE IF cached_data.kind = "no_timestamp" THEN Miss
         ELSE IF IsFresh(cached_data, t) THEN cached_data
         ELSE Miss

\* variant: the hit is not acted upon and the call goes on to the pipeline
cache_hit_ignored(cached_assessment) == FALSE

\* line 116: if cached_assessment
cache_hit(cached_assessment) == cached_assessment.kind # "miss"

(***************************************************************************)
(* RiskSynthesizerAgent._extract_agent_results and _validate_agent_results.*)
(* previous_results maps some agent ids to entries; the synthesizer counts *)
(* an entry as a success exactly when it is a dict with a 'result' key.    *)
(* An entry of the model says whether it has that key (has_result), what   *)
(* the unit's own success flag was, and its confidence.                    *)
(***************************************************************************)
EmptyMap == [x \in {} |-> None]

extract_agent_results(previous_results) ==
    [a \in expected_agents |->
        IF a \in DOMAIN previous_results /\ previous_results[a].has_result
        THEN [success |-> TRUE, confidence |-> previous_results[a].confidence]
        ELSE [success |-> FALSE, confidence |-> 0]]

has_data_hunter_rule(successful_agents) == data_hunter \in successful_agents

validate_agent_results(agent_results) ==
    LET successful_agents == {a \in DOMAIN agent_results : agent_results[a].success}
        missing_agents == DOMAIN agent_results \ successful_agents
        has_data_hunter == has_data_hunter_rule(successful_agents)
        has_analysis_agent == AnalysisUnits \cap successful_agents # {}
        minimum_requirements_met == has_data_hunter /\ has_analysis_agent
    IN [valid |-> Cardinality(successful_agents) >= 2 /\ minimum_requirements_met,
        successful_agents |-> Cardinality(successful_agents),
        successful_set |-> successful_agents,
        missing_agents |-> missing_agents,
        minimum_requirements_met |-> minimum_requirements_met]

(***************************************************************************)
(* RiskSynthesizerAgent._determine_risk_level.  _calculate_weighted_risk_- *)
(* score returns round(final_score, 2), so a score is kept in hundredths.  *)
(***************************************************************************)
risk_thresholds == [low |-> 30, medium |-> 70, high |-> 100]
ScoreScale == 10 ^ 2

\* variant: the thresholds belong to the tier above
determine_risk_level_exclusive(risk_score) ==
    IF risk_score < risk_thresholds.low * ScoreScale THEN "LOW"
    ELSE IF risk_score < risk_thresholds.medium * ScoreScale THEN "MEDIUM"
    ELSE "HIGH"

determine_risk_level(risk_score) ==
    IF risk_score <= risk_thresholds.low * ScoreScale THEN "LOW"
    ELSE IF risk_score <= risk_thresholds.medium * ScoreScale THEN "MEDIUM"
    ELSE "HIGH"

\* analyze, lines 108-111 and 136-140: the score and the tier of result_data
synthesis_result_data(final_risk_score) ==
    [final_risk_score |-> final_risk_score,
     risk_level |-> determine_risk_level(final_risk_score)]

\* RiskSynthesizerAgent.analyze, lines 92-99 and 174-183: which kind of
\* AgentResult it returns
synthesizer_analyze(previous_results) ==
    LET validation_result ==
            validate_agent_results(extract_agent_results(previous_results))
    IN IF ~validation_result.valid
       THEN [kind |-> "result", success |-> FALSE,
             synthesis_status |-> "insufficient_data",
             available_agents |-> validation_result.successful_agents,
             missing_agents |-> validation_result.missing_agents]
       ELSE [kind |-> "result", success |-> TRUE,
             synthesis_status |-> "final_assessment",
             available_agents |-> validation_result.successful_agents,
             missing_agents |-> validation_result.missing_agents]

(***************************************************************************)
(* The synthesis engine of RiskSynthesizerAgent (lines 335-628, 944-994).  *)
(* An entry of agent_results is what _extract_agent_results makes of a     *)
(* unit's stored result: success, confidence (tenths) and data, the unit's *)
(* payload.  Component scores are on the units' 0..100 scale, weights are  *)
(* in hundredths, and a ratio is kept exact, as numerator and denominator  *)
(* in lowest terms.                                                        *)
(***************************************************************************)
risk_weights ==
    [security_risk |-> 35, financial_risk |-> 30,
     technical_risk |-> 20, governance_risk |-> 15]

confidence_weights ==
    [data_quality |-> 25, agent_consensus |-> 25,
     analysis_completeness |-> 25, model_uncertainty |-> 25]

ConfidenceScale == 10

default_sources ==
    {"default_conservative", "default_moderate", "default_high",
     "default_moderate_high"}

\* dict.get(key, default)
Get(data, key, default) == IF key \in DOMAIN data THEN data[key] ELSE default

RECURSIVE SumOver(_, _)
SumOver(f, S) ==
    IF S = {} THEN 0
    ELSE LET x == CHOOSE y \in S : TRUE IN f[x] + SumOver(f, S \ {x})

MaxOf(S) == CHOOSE x \in S : \A y \in S : y <= x
MinOf(S) == CHOOSE x \in S : \A y \in S : x <= y

RECURSIVE GCD(_, _)
GCD(a, b) == IF b = 0 THEN a ELSE GCD(b, a % b)

Ratio(p, q) ==
    LET g == GCD(p, q) IN [num |-> p \div g, den |-> q \div g]

\* the sum of two ratios, over the least common denominator
RAdd(a, b) ==
    LET g == GCD(a.den, b.den)
    IN Ratio(a.num * (b.den \div g) + b.num * (a.den \div g),
             (a.den \div g) * b.den)

\* round(n / d, k) for n, d already scaled by 10^k: to the nearest, a tie to
\* the even neighbour (a tie of the exact quotient; the float the code rounds
\* may lie a hair to either side of it)
RoundHalfEven(n, d) ==
    LET q == n \div d
        r == n % d
    IN IF 2 * r < d THEN q
       ELSE IF 2 * r > d THEN q + 1
       ELSE IF q % 2 = 0 THEN q ELSE q + 1

\* n * k1 * k2 * ... / d as whole part and remainder over d, one factor at a
\* time, so that no product leaves the machine integers of the checker
RECURSIVE Scaled(_, _, _, _)
Scaled(whole, rem, d, factors) ==
    IF factors = <<>> THEN [whole |-> whole, rem |-> rem]
    ELSE LET k == Head(factors)
         IN Scaled(whole * k + (rem * k) \div d, (rem * k) % d, d, Tail(factors))

\* round(x / 4, 3) in thousandths for the ratio x: 1000 / 4 = 2 * 5 * 5 * 5
RoundQuarterToThousandths(x) ==
    LET s == Scaled(x.num \div x.den, x.num % x.den, x.den, <<2, 5, 5, 5>>)
    IN IF 2 * s.rem < x.den THEN s.whole
       ELSE IF 2 * s.rem > x.den THEN s.whole + 1
       ELSE IF s.whole % 2 = 0 THEN s.whole ELSE s.whole + 1

\* lines 352-387
calculate_security_risk(agent_results) ==
    LET pa == agent_results[protocol_analyst] IN
    IF ~pa.success
    THEN [score |-> 75, confidence |-> 2, source |-> "default_conservative"]
    ELSE [score |-> 100 - Get(pa.data, "security_score", 75),
          confidence |-> pa.confidence, source |-> "protocol_analyst"]

\* lines 389-423
calculate_financial_risk(agent_results) ==
    LET mi == agent_results[market_intelligence] IN
    IF ~mi.success
    THEN [score |-> 60, confidence |-> 3, source |-> "default_moderate"]
    ELSE [score |-> Get(mi.data, "financial_risk_score", 60),
          confidence |-> mi.confidence, source |-> "market_intelligence"]

\* lines 425-459
calculate_technical_risk(agent_results) ==
    LET dh == agent_results[data_hunter] IN
    IF ~dh.success
    THEN [score |-> 70, confidence |-> 1, source |-> "default_high"]
    ELSE [score |-> 100 - Get(dh.data, "overall_quality_score", 50),
          confidence |-> dh.confidence, source |-> "data_hunter"]

\* lines 461-497
calculate_governance_risk(agent_results) ==
    LET pa == agent_results[protocol_analyst] IN
    IF ~pa.success
    THEN [score |-> 65, confidence |-> 2, source |-> "default_moderate_high"]
    ELSE [score |-> 100 - Get(pa.data, "governance_score", 50),
          confidence |-> pa.confidence,
          source |-> "protocol_analyst_governance"]

risk_components_base(agent_results) ==
    [security_risk |-> calculate_security_risk(agent_results),
     financial_risk |-> calculate_financial_risk(agent_results),
     technical_risk |-> calculate_technical_risk(agent_results),
     governance_risk |-> calculate_governance_risk(agent_results)]

with_weight(assessment, weight) ==
    [score |-> assessment.score, confidence |-> assessment.confidence,
     source |-> assessment.source, weight |-> weight,
     contribution |-> assessment.score * weight]

\* variant: a category whose unit failed is left out
calculate_risk_components_omitting(agent_results, weights) ==
    LET base == risk_components_base(agent_results)
        kept == {c \in DOMAIN base : base[c].source \notin default_sources}
    IN [c \in kept |-> with_weight(base[c], Get(weights, c, 0))]

\* _calculate_risk_components, lines 335-350; weights is self.risk_weights
calculate_risk_components(agent_results, weights) ==
    LET base == risk_components_base(agent_results)
    IN [c \in DOMAIN base |-> with_weight(base[c], Get(weights, c, 0))]

\* the band of a score range, lines 544-549: which list gets the sentence
\* variant: the limits 20 and 40 belong to the band below
score_range_band_inclusive(score_range) ==
    IF score_range <= 20 THEN "Strong consensus on risk level"
    ELSE IF score_range <= 40 THEN "Moderate consensus on risk level"
    ELSE "Significant disagreement on risk level"

score_range_band(score_range) ==
    IF score_range < 20 THEN "Strong consensus on risk level"
    ELSE IF score_range < 40 THEN "Moderate consensus on risk level"
    ELSE "Significant disagreement on risk level"

\* statistics.variance(xs) / statistics.mean(xs) ** 2 for n >= 2 values with
\* sum s1 > 0 and sum of squares s2
relative_variance(n, s1, s2) ==
    Ratio(n * (n * s2 - s1 * s1), (n - 1) * s1 * s1)

\* _analyze_agent_consensus, lines 499-559
analyze_agent_consensus(risk_components) ==
    LET genuine == {c \in DOMAIN risk_components :
                        risk_components[c].source \notin default_sources}
        n == Cardinality(genuine)
        score == [c \in genuine |-> risk_components[c].score]
        square == [c \in genuine |-> score[c] * score[c]]
        conf == [c \in genuine |-> risk_components[c].confidence]
        conf2 == [c \in genuine |-> conf[c] * conf[c]]
        s1 == SumOver(score, genuine)
        c1 == SumOver(conf, genuine)
        rv == relative_variance(n, s1, SumOver(square, genuine))
        score_range == MaxOf({score[c] : c \in genuine})
                       - MinOf({score[c] : c \in genuine})
        band == score_range_band(score_range)
        sentence == [text |-> band, range |-> score_range]
    IN [overall_consensus |->
            IF n >= 2
            THEN IF s1 > 0
                 THEN IF rv.num >= rv.den THEN Ratio(0, 1)
                      ELSE Ratio(rv.den - rv.num, rv.den)
                 ELSE Ratio(1, 2)
            ELSE Ratio(0, 1),
        confidence_variance |->
            IF n >= 2
            THEN Ratio(n * SumOver(conf2, genuine) - c1 * c1,
                       n * (n - 1) * ConfidenceScale * ConfidenceScale)
            ELSE Ratio(0, 1),
        agreements |->
            IF n >= 2 /\ band # "Significant disagreement on risk level"
            THEN <<sentence>> ELSE <<>>,
        conflicts |->
            IF n >= 2 /\ band = "Significant disagreement on risk level"
            THEN <<sentence>> ELSE <<>>,
        component_consensus |->
            [c \in DOMAIN risk_components |->
                [score |-> risk_components[c].score,
                 confidence |-> risk_components[c].confidence,
                 reliability |->
                     IF risk_components[c].confidence > 8 THEN "high"
                     ELSE IF risk_components[c].confidence > 5 THEN "medium"
                     ELSE "low"]]]

\* variant: divides by the weights, not by the weights times the confidences
calculate_weighted_risk_score_by_weight(risk_components) ==
    LET C == DOMAIN risk_components
        ws == [c \in C |-> risk_components[c].score * risk_components[c].weight
                           * risk_components[c].confidence]
        w == [c \in C |-> risk_components[c].weight * ConfidenceScale]
    IN RoundHalfEven(ScoreScale * SumOver(ws, C), SumOver(w, C))

\* variant: the confidences play no part
calculate_weighted_risk_score_undiscounted(risk_components) ==
    LET C == DOMAIN risk_components
        ws == [c \in C |-> risk_components[c].score * risk_components[c].weight]
        w == [c \in C |-> risk_components[c].weight]
    IN RoundHalfEven(ScoreScale * SumOver(ws, C), SumOver(w, C))

\* _calculate_weighted_risk_score, lines 561-585; the result in hundredths
calculate_weighted_risk_score(risk_components) ==
    LET C == DOMAIN risk_components
        effective_weight ==
            [c \in C |-> risk_components[c].weight * risk_components[c].confidence]
        weighted ==
            [c \in C |-> risk_components[c].score * effective_weight[c]]
        scores == [c \in C |-> risk_components[c].score]
        total_weight == SumOver(effective_weight, C)
    IN IF total_weight > 0
       THEN RoundHalfEven(ScoreScale * SumOver(weighted, C), total_weight)
       ELSE IF C # {}
            THEN RoundHalfEven(ScoreScale * SumOver(scores, C), Cardinality(C))
            ELSE 50 * ScoreScale

\* _calculate_overall_confidence, lines 596-628; the result in thousandths
calculate_overall_confidence(agent_results, consensus_analysis) ==
    LET ok == {a \in DOMAIN agent_results : agent_results[a].success}
        conf == [a \in ok |-> agent_results[a].confidence]
        data_quality ==
            IF ok # {}
            THEN Ratio(SumOver(conf, ok), ConfidenceScale * Cardinality(ok))
            ELSE Ratio(0, 1)
        completeness ==
            IF Cardinality(ok) >= 3 THEN Ratio(1, 1)
            ELSE Ratio(Cardinality(ok), 3)
        cv == consensus_analysis.confidence_variance
        model_uncertainty ==
            IF cv.num >= cv.den THEN Ratio(0, 1)
            ELSE Ratio(cv.den - cv.num, cv.den)
        total == RAdd(RAdd(data_quality, consensus_analysis.overall_consensus),
                      RAdd(completeness, model_uncertainty))
        \* every factor has the weight confidence_weights[f] = 0.25
        overall == RoundQuarterToThousandths(total)
    IN IF overall < 100 THEN 100 ELSE IF overall > 1000 THEN 1000 ELSE overall

\* list(set(xs)), lines 964, 979, 994: the order in which a set of strings
\* is listed follows the strings' hashes, which the interpreter salts with a
\* seed it draws when it starts; RiskTexts fixes an order of reference and a
\* seed picks that order or its reverse
RiskTexts == <<"Unaudited contracts", "Low liquidity", "GitHub">>
HashSeeds == {0, 1}

RECURSIVE InOrder(_, _)
InOrder(S, i) ==
    IF i > Len(RiskTexts) THEN <<>>
    ELSE IF RiskTexts[i] \in S THEN <<RiskTexts[i]>> \o InOrder(S, i + 1)
    ELSE InOrder(S, i + 1)

RECURSIVE Reversed(_)
Reversed(s) == IF s = <<>> THEN <<>> ELSE Reversed(Tail(s)) \o <<Head(s)>>

list_of_set(S, seed) ==
    IF seed = 0 THEN InOrder(S, 1) ELSE Reversed(InOrder(S, 1))

reported(agent_results, a, severity) ==
    IF agent_results[a].success
    THEN Get(Get(agent_results[a].data, "risk_factors", EmptyMap), severity, {})
    ELSE {}

\* _extract_critical_risks, lines 944-964
extract_critical_risks(agent_results, seed) ==
    LET dh == agent_results[data_hunter]
        gaps == IF dh.success THEN Get(dh.data, "data_gaps", {}) ELSE {}
    IN list_of_set(reported(agent_results, protocol_analyst, "critical")
                   \cup reported(agent_results, market_intelligence, "critical")
                   \cup {g.missing_source : g \in {h \in gaps : h.impact = "high"}},
                   seed)

\* _extract_major_risks, lines 966-979
extract_major_risks(agent_results, seed) ==
    list_of_set(reported(agent_results, protocol_analyst, "high")
                \cup reported(agent_results, market_intelligence, "high"), seed)

\* _extract_minor_risks, lines 981-994
extract_minor_risks(agent_results, seed) ==
    list_of_set(reported(agent_results, protocol_analyst, "medium")
                \cup reported(agent_results, market_intelligence, "medium"), seed)

\* analyze, lines 92-161, for agent_results already extracted: the parts of
\* result_data that are computed from them
risk_synthesis(agent_results, seed) ==
    IF ~validate_agent_results(agent_results).valid
    THEN [success |-> FALSE, synthesis_status |-> "insufficient_data"]
    ELSE LET risk_components ==
                 calculate_risk_components(agent_results, risk_weights)
             consensus_analysis == analyze_agent_consensus(risk_components)
             final_risk_score == calculate_weighted_risk_score(risk_components)
         IN [success |-> TRUE,
             final_risk_score |-> final_risk_score,
             risk_level |-> determine_risk_level(final_risk_score),
             overall_confidence |->
                 calculate_overall_confidence(agent_results, consensus_analysis),
             risk_components |-> risk_components,
             consensus_analysis |-> consensus_analysis,
             risk_factors |->
                 [critical |-> extract_critical_risks(agent_results, seed),
                  major |-> extract_major_risks(agent_results, seed),
                  minor |-> extract_minor_risks(agent_results, seed)]]

(***************************************************************************)
(* AgentContext as built by _execute_agent_with_runner (lines 262-267).    *)
(***************************************************************************)
context_previous_results(session_id) == EmptyMap

(***************************************************************************)
(* BaseChainGuardAgent.analyze as seen by the retry loop: the analysis     *)
(* units talk to external services, so a call may return a successful or   *)
(* a failed AgentResult or raise, quickly or after the timeout.  The       *)
(* synthesizer returns before its first await when validation fails.       *)
(***************************************************************************)
analyze(u, session_id) ==
    IF u = risk_synthesizer
    THEN {[kind |-> IF synthesizer_analyze(context_previous_results(session_id)).success
                    THEN "ok" ELSE "fail",
           dur |-> d] : d \in {0}}
    ELSE {[kind |-> k, dur |-> d] : k \in {"ok", "fail", "raise"}, d \in Durations}

\* asyncio.wait_for(..., timeout=self.timeout_seconds)
wait_for_expired(t) == t > AGENT_TIMEOUT_SECONDS

\* variant: a constant delay between attempts
backoff_constant(attempt) == 1

\* wait_time = 2 ** attempt, attempt counted from 0
backoff(attempt) == 2 ^ attempt

\* the retry loop goes on after the failure of call number n (1-based)
retry_again(n) == n - 1 < max_retries - 1

(***************************************************************************)
(* AgentResult values returned by execute.                                 *)
(***************************************************************************)
NotCalled == [kind |-> "not_called"]

AnalysisResult(ok, t) ==
    [kind |-> "result", success |-> ok,
     error |-> IF ok THEN "none" ELSE "analysis", cause |-> "none",
     execution_time |-> t]

\* variant: the TimeoutError leaves execute
execute_reraises_timeout == [kind |-> "exception"]

\* except asyncio.TimeoutError (lines 138-151)
execute_on_timeout ==
    [kind |-> "result", success |-> FALSE, error |-> "timeout",
     cause |-> "TimeoutError", execution_time |-> AGENT_TIMEOUT_SECONDS]

\* except Exception (lines 153-168); str(e) goes into errors and reasoning
execute_on_exception(e, t) ==
    [kind |-> "result", success |-> FALSE, error |-> "exception",
     cause |-> e, execution_time |-> t]

(***************************************************************************)
(* ADKOrchestrator._execute_agent_with_runner, lines 275-304: the dict it  *)
(* returns once execute came back.  InMemorySessionService.store and       *)
(* Runner(...) belong to google.adk: either call works or raises,          *)
(* depending on the installed library.  An exception that execute let      *)
(* through would land in the same handler.                                 *)
(***************************************************************************)
AdkBehaviours == {"ok", "runner_raises", "store_raises"}

runner_return(r, lib) ==
    IF r.kind = "result" /\ lib # "store_raises"
    THEN [status |-> IF r.success THEN "completed" ELSE "failed",
          success |-> r.success, has_result |-> TRUE]
    ELSE [status |-> "failed", success |-> FALSE, has_result |-> FALSE]

runner_failed == [status |-> "failed", success |-> FALSE, has_result |-> FALSE]

(***************************************************************************)
(* ADKMemoryManager.create_session / store_agent_result.                   *)
(***************************************************************************)
new_session(protocol_name, t) ==
    [protocol_name |-> protocol_name, created_at |-> t, updated_at |-> t,
     agent_results |-> EmptyMap, status |-> "active"]

\* variant: a missing session is not noticed
session_found_always(store, session_id) == TRUE

\* lines 189-191: session = self.get_session(session_id); if not session: raise
session_found(store, session_id) == session_id \in DOMAIN store

\* variant: the session's results are replaced by the new entry
store_agent_result_replacing(store, session_id, agent_id, result, t) ==
    [store EXCEPT ![session_id] =
        [@ EXCEPT !.agent_results =
                      (agent_id :> [result |-> result, timestamp |-> t,
                                    agent_id |-> agent_id]),
                  !.updated_at = t]]

store_agent_result(store, session_id, agent_id, result, t) ==
    [store EXCEPT ![session_id] =
        [@ EXCEPT !.agent_results =
                      (agent_id :> [result |-> result, timestamp |-> t,
                                    agent_id |-> agent_id]) @@ @,
                  !.updated_at = t]]

\* ADKMemoryManager.get_agent_results
get_agent_results(store, session_id) ==
    IF session_id \in DOMAIN store THEN store[session_id].agent_results
    ELSE EmptyMap

\* variant: the sweep goes by the time of creation
cleanup_old_sessions_by_creation(store, t, max_age) ==
    LET cutoff_time == t - max_age * HourMinutes
        sessions_to_remove ==
            {s \in DOMAIN store : store[s].created_at < cutoff_time}
    IN [s \in DOMAIN store \ sessions_to_remove |-> store[s]]

\* ADKMemoryManager.cleanup_old_sessions
cleanup_old_sessions(store, t, max_age) ==
    LET cutoff_time == t - max_age * HourMinutes
        sessions_to_remove ==
            {s \in DOMAIN store : store[s].updated_at < cutoff_time}
    IN [s \in DOMAIN store \ sessions_to_remove |-> store[s]]

(***************************************************************************)
(* Scheduling rules of _execute_multi_agent_workflow.                      *)
(***************************************************************************)
\* variant: a failed discovery skips the analysis phase
after_discovery_strict(data_hunter_result) ==
    IF data_hunter_result.success THEN "analysis" ELSE "synthesis"

\* line 183-185: a failed discovery is logged, the workflow goes on
after_discovery(data_hunter_result) == "analysis"

\* variant: the analysis phase starts while discovery is still running
discovery_not_awaited(st) == TRUE

\* line 175: the workflow awaits the discovery unit before it goes on
discovery_awaited(st) == st[data_hunter] = "returned"

\* variant: the join returns with the first unit that comes back
gather_first(st) == \E u \in AnalysisUnits : st[u] = "returned"

\* asyncio.gather(analyst_task, market_task, return_exceptions=True)
gather_done(st) == \A u \in AnalysisUnits : st[u] = "returned"

\* variant: with fewer than two successful outputs the synthesis unit is skipped
after_analysis_abort(outs) ==
    IF Cardinality({u \in expected_agents : outs[u].status = "completed"}) >= 2
    THEN "synthesis" ELSE "compile"

\* lines 220-227: synthesis follows the join unconditionally
after_analysis(outs) == "synthesis"

(***************************************************************************)
(* ADKOrchestrator._compile_final_assessment.                              *)
(***************************************************************************)
compile_scores(agent_results) ==
    LET successful_agents ==
            {a \in DOMAIN agent_results : agent_results[a].status # "failed"}
    IN IF successful_agents # {}
       THEN [overall_risk_score |-> 60, risk_level |-> "medium", confidence |-> 5]
       ELSE [overall_risk_score |-> 80, risk_level |-> "high", confidence |-> 1]

compile_final_assessment(protocol_name, session_id, agent_results) ==
    IF /\ Constructs(ComponentRiskScore_required, ComponentRiskScore_kwargs)
       /\ Constructs(DataQuality_required, DataQuality_kwargs)
    THEN LET s == compile_scores(agent_results) IN
         [kind |-> "assessment", protocol |-> ProtocolInfo(protocol_name),
          session_id |-> session_id, error_type |-> "none",
          overall_risk_score |-> s.overall_risk_score,
          risk_level |-> s.risk_level, confidence |-> s.confidence,
          component_scores |-> [k \in ComponentRiskScore_required |-> 60]]
    ELSE \* except branch, lines 414-439
         IF /\ Constructs(ComponentRiskScore_required, ComponentRiskScore_kwargs)
            /\ Constructs(DataQuality_required, DataQuality_kwargs)
         THEN [kind |-> "error_assessment",
               protocol |-> ProtocolInfo(protocol_name),
               session_id |-> session_id, error_type |-> "error",
               overall_risk_score |-> 100, risk_level |-> "critical",
               confidence |-> 0,
               component_scores |-> [k \in ComponentRiskScore_required |-> 100]]
         ELSE Raised

(***************************************************************************)
(* ADKOrchestrator._cache_assessment with ADKMemoryManager.set_cache.      *)
(***************************************************************************)
\* json.dumps(cache_data, default=str) followed by json.loads on the way back:
\* a value json cannot encode (a pydantic model, a datetime) is written as
\* str(value), and the reader gets that string, not the value; numbers and
\* strings, a str-based Enum included, come back as they were
json_default_str(v) == [str |-> v]

\* cache_data = assessment.__dict__ with a 'timestamp' key added (479-480)
cache_entry(assessment, t) ==
    [kind |-> "entry", timestamp |-> t, source |-> assessment.kind,
     protocol |-> json_default_str(assessment.protocol),
     overall_risk_score |-> assessment.overall_risk_score,
     risk_level |-> assessment.risk_level, confidence |-> assessment.confidence,
     component_scores |-> json_default_str(assessment.component_scores)]

\* lines 479-480: cache_data is assessment.__dict__ itself, not a copy, so
\* cache_data['timestamp'] = ... sets the key on the assessment object; this
\* happens before set_cache looks for a client
after_cache_assessment(assessment, t) == ("timestamp" :> t) @@ assessment

cache_assessment(store, client, cache_key, assessment, t) ==
    IF client = "up"
    THEN (cache_key :> cache_entry(assessment, t)) @@ store
    ELSE store          \* no client, or setex raises and set_cache logs it

(***************************************************************************)
(* Initial state.  The backing store is an external service that outlives  *)
(* the process, so it may already hold entries; redis_client is None       *)
(* until initialize_redis succeeds, and a client may have lost its server  *)
(* (the store's contents are then out of reach and left empty here).       *)
(***************************************************************************)
NoValue == [kind |-> "none"]
NoSession == <<"none", "", 0>>
NotReturned == [status |-> "pending", success |-> FALSE, has_result |-> FALSE]

StoredEntry(p, ts) ==
    [kind |-> "entry", timestamp |-> ts, source |-> "assessment",
     protocol |-> json_default_str(ProtocolInfo(p)),
     overall_risk_score |-> 60, risk_level |-> "medium", confidence |-> 5,
     component_scores |->
         json_default_str([k \in ComponentRiskScore_required |-> 60])]

InitialKeys == Subjects \X {DayOf(StartTime)}
InitialValues(k) ==
    {Garbage, NoTimestamp,
     StoredEntry(k[1], StartTime - TickStep),        \* younger than the TTL
     StoredEntry(k[1], StartTime - 3 * TickStep)}    \* older than the TTL

RECURSIVE StoresUpTo(_)
StoresUpTo(n) ==
    IF n = 0 THEN {EmptyMap}
    ELSE StoresUpTo(n - 1) \cup
         UNION {UNION {{(k :> v) @@ f : v \in InitialValues(k)}
                       : k \in InitialKeys \ DOMAIN f}
                : f \in StoresUpTo(n - 1)}

InitialStores == StoresUpTo(MaxCacheEntries)

\* main.py creates one session at startup through create_session; uuid4 gives
\* the id its last component.  assess_protocol_risk never looks at the
\* sessions it did not name, so a store without this session behaves alike.
StartupSessions ==
    {(<<"session", p, 1>> :> new_session(p, StartTime)) : p \in {"Aave V3"}}

IdleRun ==
    [protocol_name |-> "", session_id |-> NoSession, cache_key |-> <<"", 0>>,
     cached |-> Miss, launched |-> {}, wrote |-> FALSE,
     cancel_requested |-> FALSE]

\* no call of store_agent_result, _cache_assessment, _get_cached_assessment
\* or of the synthesis arithmetic has been made yet
NoStore == [session_id |-> NoSession, result |-> NoValue, raised |-> FALSE,
            phase |-> "none", calls |-> 0]

TierIdle == synScore = 0 /\ synData = NoValue
MemIdle ==
    /\ evicted = {}
    /\ unitStore = [u \in AnalysisUnits |-> NoStore]
CacheIdle == written = EmptyMap /\ readBack = NoValue /\ held = NoValue

Callers == {1, 2}     \* concurrent callers of assess_protocol_risk

ScoreIdle == scoreIn = EmptyMap /\ hashSeed = 0 /\ scoreOut = <<>>
RunsIdle == secs = 0 /\ inflight = [c \in Callers |-> NoSession]
HistIdle ==
    /\ agent_memories = [u \in AnalysisUnits |-> <<>>]
    /\ appended = [u \in AnalysisUnits |-> 0]
    /\ lastExec = NoValue
EngineIdle == ScoreIdle /\ RunsIdle /\ HistIdle

RunInit ==
    /\ pc = "idle"
    /\ run = IdleRun
    /\ ustate = [u \in Agents |-> "idle"]
    /\ attempts = [u \in Agents |-> 0]
    /\ elapsed = [u \in Agents |-> 0]
    /\ waits = [u \in Agents |-> <<>>]
    /\ execResult = [u \in Agents |-> NotCalled]
    /\ unitOut = [u \in Agents |-> NotReturned]
    /\ compiled = NoValue
    /\ outcome = NoValue

Init ==
    /\ now = StartTime
    /\ adk \in AdkBehaviours
    /\ redis_client \in {"none", "up", "down"}
    /\ redis \in IF redis_client = "up" THEN InitialStores ELSE {EmptyMap}
    /\ sessions \in StartupSessions
    /\ RunInit
    /\ synIn = EmptyMap
    /\ synOut = NoValue
    /\ TierIdle /\ MemIdle /\ CacheIdle /\ EngineIdle

(***************************************************************************)
(* The clock.                                                              *)
(***************************************************************************)
Tick ==
    /\ now < StartTime + MaxTicks * TickStep
    /\ now' = now + TickStep
    /\ UNCHANGED <<adk, redis_client, redis, sessions, pc, run, ustate, attempts,
                   elapsed, waits, execResult, unitOut, compiled, outcome,
                   synIn, synOut,
                   tierVars, memVars, cacheVars, engineVars>>

(***************************************************************************)
(* assess_protocol_risk, lines 107-128: session id, cache lookup,          *)
(* validation.  An exception raised inside the try is handled at 151-158   *)
(* by a second call of _create_error_assessment.                           *)
(***************************************************************************)
general_failure(protocol_name, t) ==
    create_error_assessment(protocol_name, <<"error", "", t>>, "general_failure")

assess_protocol_risk(protocol_name) ==
    /\ pc \in {"idle", "done", "cancelled"}
    /\ LET session_id == <<"assessment", protocol_name, now>>
           cache_key == generate_cache_key(protocol_name, now)
           cached_assessment ==
               get_cached_assessment(cache_key, redis_client, redis, now)
           unsupported ==
               create_error_assessment(protocol_name, session_id,
                                       "unsupported_protocol")
       IN
       /\ run' = [protocol_name |-> protocol_name, session_id |-> session_id,
                  cache_key |-> cache_key, cached |-> cached_assessment,
                  launched |-> {}, wrote |-> FALSE, cancel_requested |-> FALSE]
       /\ IF cache_hit(cached_assessment)
          THEN /\ pc' = "done"
               /\ outcome' = [kind |-> "cached", value |-> cached_assessment]
          ELSE IF ~is_supported(protocol_name)
          THEN /\ pc' = "done"
               /\ outcome' = IF unsupported.kind # "exception" THEN unsupported
                             ELSE general_failure(protocol_name, now)
          ELSE /\ pc' = "discovery"
               /\ outcome' = NoValue
    /\ ustate' = [u \in Agents |-> "idle"]
    /\ attempts' = [u \in Agents |-> 0]
    /\ elapsed' = [u \in Agents |-> 0]
    /\ waits' = [u \in Agents |-> <<>>]
    /\ execResult' = [u \in Agents |-> NotCalled]
    /\ unitOut' = [u \in Agents |-> NotReturned]
    /\ compiled' = NoValue
    /\ UNCHANGED <<now, adk, redis_client, redis, sessions, synIn, synOut,
                   tierVars, memVars, cacheVars, engineVars>>

(***************************************************************************)
(* _execute_agent_with_runner, lines 250-273: Runner(...) of google.adk    *)
(* may raise, and then the unit's execute is never awaited.                *)
(***************************************************************************)
Launch(U) ==
    /\ ustate' = [u \in Agents |->
                     IF u \in U
                     THEN (IF adk = "runner_raises" THEN "returned" ELSE "running")
                     ELSE ustate[u]]
    /\ unitOut' = [u \in Agents |->
                     IF u \in U /\ adk = "runner_raises"
                     THEN runner_failed ELSE unitOut[u]]
    /\ run' = [run EXCEPT !.launched = @ \cup U]

\* Phase 1, lines 173-180
LaunchDiscovery ==
    /\ pc = "discovery"
    /\ ustate[data_hunter] = "idle"
    /\ Launch({data_hunter})
    /\ UNCHANGED <<now, adk, redis_client, redis, sessions, pc, attempts, elapsed,
                   waits, execResult, compiled, outcome, synIn, synOut,
                   tierVars, memVars, cacheVars, engineVars>>

\* Phase 2, lines 186-209: both coroutines are handed to asyncio.gather
LaunchAnalysis ==
    /\ pc = "discovery"
    /\ data_hunter \in run.launched
    /\ discovery_awaited(ustate)
    /\ after_discovery(unitOut[data_hunter]) = "analysis"
    /\ pc' = "analysis"
    /\ Launch(AnalysisUnits)
    /\ UNCHANGED <<now, adk, redis_client, redis, sessions, attempts, elapsed,
                   waits, execResult, compiled, outcome, synIn, synOut,
                   tierVars, memVars, cacheVars, engineVars>>

\* Phase 3, lines 220-227
synthesis_due ==
    IF pc = "analysis"
    THEN gather_done(ustate) /\ after_analysis(unitOut) = "synthesis"
    ELSE /\ pc = "discovery"
         /\ data_hunter \in run.launched
         /\ discovery_awaited(ustate)
         /\ after_discovery(unitOut[data_hunter]) = "synthesis"

LaunchSynthesis ==
    /\ synthesis_due
    /\ pc' = "synthesis"
    /\ Launch({risk_synthesizer})
    /\ UNCHANGED <<now, adk, redis_client, redis, sessions, attempts, elapsed,
                   waits, execResult, compiled, outcome, synIn, synOut,
                   tierVars, memVars, cacheVars, engineVars>>

(***************************************************************************)
(* BaseChainGuardAgent.execute with _execute_with_timeout: one call of     *)
(* analyze and everything that follows it up to the next call or up to     *)
(* the return of _execute_agent_with_runner.                               *)
(***************************************************************************)
Return(u, r) ==
    /\ execResult' = [execResult EXCEPT ![u] = r]
    /\ ustate' = [ustate EXCEPT ![u] = "returned"]
    /\ unitOut' = [unitOut EXCEPT ![u] = runner_return(r, adk)]

Attempt(u) ==
    /\ ustate[u] = "running"
    /\ \E o \in analyze(u, run.session_id) :
         LET n == attempts[u] + 1
             t == elapsed[u] + o.dur
         IN
         /\ attempts' = [attempts EXCEPT ![u] = n]
         /\ IF wait_for_expired(t)
            THEN /\ Return(u, execute_on_timeout)
                 /\ elapsed' = [elapsed EXCEPT ![u] = AGENT_TIMEOUT_SECONDS]
                 /\ UNCHANGED <<waits, sessions>>
            ELSE IF o.kind \in {"ok", "fail"}
            THEN /\ elapsed' = [elapsed EXCEPT ![u] = t]
                 /\ UNCHANGED waits
                 /\ IF session_found(sessions, run.session_id)
                    THEN /\ sessions' = store_agent_result(
                                sessions, run.session_id, u,
                                AnalysisResult(o.kind = "ok", t), now)
                         /\ Return(u, AnalysisResult(o.kind = "ok", t))
                    ELSE \* ValueError of store_agent_result, caught at 153
                         /\ UNCHANGED sessions
                         /\ Return(u, execute_on_exception("session_not_found", t))
            ELSE IF retry_again(n)
            THEN IF wait_for_expired(t + backoff(n - 1))
                 THEN /\ Return(u, execute_on_timeout)
                      /\ elapsed' = [elapsed EXCEPT ![u] = AGENT_TIMEOUT_SECONDS]
                      /\ UNCHANGED <<waits, sessions>>
                 ELSE /\ elapsed' = [elapsed EXCEPT ![u] = t + backoff(n - 1)]
                      /\ waits' = [waits EXCEPT ![u] = Append(@, backoff(n - 1))]
                      /\ UNCHANGED <<ustate, execResult, unitOut, sessions>>
            ELSE \* raise last_error, caught at 153
                 /\ elapsed' = [elapsed EXCEPT ![u] = t]
                 /\ Return(u, execute_on_exception("analysis_fault", t))
                 /\ UNCHANGED <<waits, sessions>>
    /\ UNCHANGED <<now, adk, redis_client, redis, pc, run, compiled, outcome,
                   synIn, synOut,
                   tierVars, memVars, cacheVars, engineVars>>

(***************************************************************************)
(* Lines 229-239 and 137-158: compile, cache, return.                      *)
(***************************************************************************)
compile_due ==
    IF pc = "synthesis"
    THEN ustate[risk_synthesizer] = "returned"
    ELSE pc = "analysis" /\ gather_done(ustate)
         /\ after_analysis(unitOut) = "compile"

CompileAndReturn ==
    /\ compile_due
    /\ LET assessment_result ==
               compile_final_assessment(run.protocol_name, run.session_id, unitOut)
           workflow_failure ==
               create_error_assessment(run.protocol_name, run.session_id,
                                       "workflow_failure")
       IN
       /\ compiled' = compile_scores(unitOut)
       /\ IF assessment_result.kind # "exception"
          THEN /\ redis' = cache_assessment(redis, redis_client, run.cache_key,
                                            assessment_result, now)
               /\ run' = [run EXCEPT !.wrote = (redis_client = "up")]
               /\ outcome' = after_cache_assessment(assessment_result, now)
          ELSE /\ UNCHANGED <<redis, run>>
               /\ outcome' = IF workflow_failure.kind # "exception"
                             THEN workflow_failure
                             ELSE general_failure(run.protocol_name, now)
    /\ pc' = "done"
    /\ UNCHANGED <<now, adk, redis_client, sessions, ustate, attempts, elapsed,
                   waits, execResult, unitOut, synIn, synOut,
                   tierVars, memVars, cacheVars, engineVars>>

(***************************************************************************)
(* The caller cancels the task that runs assess_protocol_risk while units  *)
(* are in flight.  asyncio throws CancelledError into the innermost await: *)
(* wait_for cancels the coroutine it wraps and re-raises, gather cancels   *)
(* every awaitable it was given.  CancelledError derives from              *)
(* BaseException, so neither the handlers of execute (lines 138, 153) nor  *)
(* those of _execute_agent_with_runner (293) and assess_protocol_risk      *)
(* (142, 151), all of which are `except Exception', take it.               *)
(***************************************************************************)
Cancelled == [kind |-> "cancelled"]

\* variant: the handlers take every exception, a cancellation included
execute_catches_everything(exc) == TRUE

\* except asyncio.TimeoutError / except Exception
execute_catches(exc) == exc \in {"TimeoutError", "Exception"}

Cancel ==
    /\ pc \in {"discovery", "analysis", "synthesis"}
    /\ \E u \in Agents : ustate[u] = "running"
    /\ ~run.cancel_requested
    /\ run' = [run EXCEPT !.cancel_requested = TRUE]
    /\ IF execute_catches("CancelledError")
       THEN \* execute answers with a failed result and the workflow goes on
            /\ ustate' = [u \in Agents |->
                    IF ustate[u] = "running" THEN "returned" ELSE ustate[u]]
            /\ execResult' = [u \in Agents |->
                    IF ustate[u] = "running"
                    THEN execute_on_exception("CancelledError", elapsed[u])
                    ELSE execResult[u]]
            /\ unitOut' = [u \in Agents |->
                    IF ustate[u] = "running"
                    THEN runner_return(
                            execute_on_exception("CancelledError", elapsed[u]), adk)
                    ELSE unitOut[u]]
            /\ UNCHANGED <<pc, outcome>>
       ELSE \* CancelledError leaves every frame up to the caller
            /\ ustate' = [u \in Agents |->
                    IF ustate[u] = "running" THEN "cancelled" ELSE ustate[u]]
            /\ pc' = "cancelled"
            /\ outcome' = Cancelled
            /\ UNCHANGED <<execResult, unitOut>>
    /\ UNCHANGED <<now, adk, redis_client, redis, sessions, attempts, elapsed,
                   waits, compiled, synIn, synOut, tierVars, memVars, cacheVars, engineVars>>

Next ==
    \/ Tick
    \/ \E p \in Subjects : assess_protocol_risk(p)
    \/ LaunchDiscovery
    \/ \E u \in Agents : Attempt(u)
    \/ LaunchAnalysis
    \/ LaunchSynthesis
    \/ CompileAndReturn
    \/ Cancel

Spec == Init /\ [][Next]_vars

(***************************************************************************)
(* RiskSynthesizerAgent.analyze applied to a given previous_results.       *)
(***************************************************************************)
PreviousResultsEntries ==
    {[has_result |-> FALSE, success |-> FALSE, confidence |-> 0]} \cup
    {[has_result |-> TRUE, success |-> ok, confidence |-> c]
        : ok \in BOOLEAN, c \in {3, 9}}

\* scores _calculate_weighted_risk_score can return, in hundredths: the ends of
\* the range, the thresholds and their neighbours
FinalRiskScores ==
    {0, 1, 2999, 3000, 3001, 5000, 6999, 7000, 7001, 9999, 10000}

PreviousResultsInputs ==
    UNION {[D -> PreviousResultsEntries] : D \in SUBSET expected_agents}

SynInit ==
    /\ now = StartTime
    /\ adk = "ok"
    /\ redis_client = "none"
    /\ redis = EmptyMap
    /\ sessions = EmptyMap
    /\ RunInit
    /\ synIn \in PreviousResultsInputs
    /\ synOut = NoValue
    /\ synScore \in FinalRiskScores
    /\ synData = NoValue
    /\ MemIdle /\ CacheIdle /\ EngineIdle

SynAnalyze ==
    /\ synOut = NoValue
    /\ synOut' = synthesizer_analyze(synIn)
    /\ synData' = IF synthesizer_analyze(synIn).success
                  THEN synthesis_result_data(synScore)
                  ELSE NoValue
    /\ UNCHANGED <<now, adk, redis_client, redis, sessions, pc, run, ustate,
                   attempts, elapsed, waits, execResult, unitOut, compiled,
                   outcome, synIn, synScore, memVars, cacheVars, engineVars>>

SynNext == SynAnalyze

SynSpec == SynInit /\ [][SynNext]_vars

(***************************************************************************)
(* The synthesis engine applied to given agent_results, once and again,    *)
(* in the same interpreter or after a restart.                             *)
(***************************************************************************)
QualityScores == {0, 60, 80, 100}
SecurityScores == {0, 60, 100}
GovernanceScores == {60, 100}
FinancialScores == {0, 20, 40, 59, 60, 79, 80, 100}
Confidences == {0, 5, 9}

FailedEntry == [success |-> FALSE, confidence |-> 0, data |-> EmptyMap]
SuccessEntry(confidence, data) ==
    [success |-> TRUE, confidence |-> confidence, data |-> data]

\* payloads: one without the keys the engine reads, and the scored ones
DataHunterData ==
    {EmptyMap} \cup
    {[overall_quality_score |-> q,
      data_gaps |-> {[missing_source |-> "GitHub", impact |-> "high"]}]
        : q \in QualityScores}
ProtocolAnalystData ==
    {EmptyMap} \cup
    {[security_score |-> x, governance_score |-> g,
      risk_factors |-> [critical |-> {"Unaudited contracts"}]]
        : x \in SecurityScores, g \in GovernanceScores}
MarketIntelligenceData ==
    {EmptyMap} \cup
    {[financial_risk_score |-> f,
      risk_factors |-> [critical |-> {"Low liquidity"}]]
        : f \in FinancialScores}

UnitData(a) ==
    IF a = data_hunter THEN DataHunterData
    ELSE IF a = protocol_analyst THEN ProtocolAnalystData
    ELSE MarketIntelligenceData

AgentResultsInputs ==
    {r \in [expected_agents ->
                {FailedEntry} \cup
                UNION {{SuccessEntry(c, d) : c \in Confidences}
                       : d \in UNION {UnitData(a) : a \in expected_agents}}] :
        \A a \in expected_agents : r[a].success => r[a].data \in UnitData(a)}

ScoreInit ==
    /\ now = StartTime
    /\ adk = "ok"
    /\ redis_client = "none"
    /\ redis = EmptyMap
    /\ sessions = EmptyMap
    /\ RunInit
    /\ synIn = EmptyMap
    /\ synOut = NoValue
    /\ TierIdle /\ MemIdle /\ CacheIdle /\ RunsIdle /\ HistIdle
    /\ scoreIn \in AgentResultsInputs
    /\ hashSeed \in HashSeeds
    /\ scoreOut = <<>>

\* one call of analyze on the unchanged agent_results
Synthesize ==
    /\ Len(scoreOut) < MaxSyntheses
    /\ scoreOut' = Append(scoreOut, risk_synthesis(scoreIn, hashSeed))
    /\ UNCHANGED <<now, adk, redis_client, redis, sessions, pc, run, ustate,
                   attempts, elapsed, waits, execResult, unitOut, compiled,
                   outcome, synIn, synOut, tierVars, memVars, cacheVars,
                   scoreIn, hashSeed, runsVars, histVars>>

\* the service is restarted: the new interpreter draws a new hash seed
Restart ==
    /\ hashSeed' \in HashSeeds \ {hashSeed}
    /\ UNCHANGED <<now, adk, redis_client, redis, sessions, pc, run, ustate,
                   attempts, elapsed, waits, execResult, unitOut, compiled,
                   outcome, synIn, synOut, tierVars, memVars, cacheVars,
                   scoreIn, scoreOut, runsVars, histVars>>

ScoreNext == Synthesize \/ Restart

ScoreSpec == ScoreInit /\ [][ScoreNext]_vars

(***************************************************************************)
(* _cache_assessment and _get_cached_assessment applied to assessments     *)
(* that are valid RiskAssessment objects, with the backing store up.       *)
(***************************************************************************)
RiskAssessments ==
    {[kind |-> "assessment", protocol |-> ProtocolInfo(p),
      session_id |-> <<"assessment", p, 0>>, error_type |-> "none",
      overall_risk_score |-> v.score, risk_level |-> v.level, confidence |-> 5,
      component_scores |-> [k \in ComponentRiskScore_required |-> v.score]]
        : p \in Subjects,
          v \in {[score |-> 25, level |-> "low"], [score |-> 60, level |-> "medium"]}}

CacheInit ==
    /\ now = StartTime - cache_ttl_minutes
    /\ adk = "ok"
    /\ redis_client = "up"
    /\ redis \in InitialStores
    /\ sessions = EmptyMap
    /\ RunInit
    /\ synIn = EmptyMap
    /\ synOut = NoValue
    /\ TierIdle /\ MemIdle /\ CacheIdle /\ EngineIdle

CacheWrite(assessment) ==
    LET cache_key == generate_cache_key(assessment.protocol.name, now) IN
    /\ redis' = cache_assessment(redis, redis_client, cache_key, assessment, now)
    /\ written' = (cache_key :> [assessment |-> assessment, at |-> now]) @@ written
    /\ readBack' = NoValue
    /\ held' = [compiled |-> assessment,
                returned |-> after_cache_assessment(assessment, now)]
    /\ UNCHANGED <<now, adk, redis_client, sessions, pc, run, ustate, attempts,
                   elapsed, waits, execResult, unitOut, compiled, outcome,
                   synIn, synOut, tierVars, memVars, engineVars>>

CacheRead(protocol_name) ==
    LET cache_key == generate_cache_key(protocol_name, now) IN
    /\ readBack' = [cache_key |-> cache_key, at |-> now,
                    value |-> get_cached_assessment(cache_key, redis_client,
                                                    redis, now)]
    /\ UNCHANGED <<now, adk, redis_client, redis, sessions, pc, run, ustate,
                   attempts, elapsed, waits, execResult, unitOut, compiled,
                   outcome, synIn, synOut, tierVars, memVars, written, held,
                   engineVars>>

CacheNext ==
    \/ Tick
    \/ \E a \in RiskAssessments : CacheWrite(a)
    \/ \E p \in Subjects : CacheRead(p)

CacheSpec == CacheInit /\ [][CacheNext]_vars

(***************************************************************************)
(* The session store of ADKMemoryManager used the way                      *)
(* phase3_complete_demo.py uses it: a session made by create_session, and  *)
(* the analysis units' execute storing into it (base_adk_agent.py lines    *)
(* 123-127).  store_agent_result has no await before its write to the      *)
(* session, so that write is one step; the await of setex follows it.      *)
(***************************************************************************)
StoredResults == {AnalysisResult(TRUE, 1), AnalysisResult(FALSE, 1)}

MemInit ==
    /\ now = StartTime
    /\ adk = "ok"
    /\ redis_client = "up"
    /\ redis = EmptyMap
    /\ sessions = EmptyMap
    /\ RunInit
    /\ synIn = EmptyMap
    /\ synOut = NoValue
    /\ TierIdle /\ MemIdle /\ CacheIdle /\ EngineIdle

MemTick ==
    /\ now < StartTime + SweepHorizon
    /\ now' = now + SweepStep
    /\ UNCHANGED <<adk, redis_client, redis, sessions, pc, run, ustate, attempts,
                   elapsed, waits, execResult, unitOut, compiled, outcome,
                   synIn, synOut, tierVars, memVars, cacheVars, engineVars>>

\* uuid4 gives every session an id no session had before
CreateSession(protocol_name) ==
    LET n == Cardinality(DOMAIN sessions \cup evicted)
        session_id == <<"session", protocol_name, n + 1>>
    IN
    /\ n < MaxSessions
    /\ sessions' = (session_id :> new_session(protocol_name, now)) @@ sessions
    /\ UNCHANGED <<now, adk, redis_client, redis, pc, run, ustate, attempts,
                   elapsed, waits, execResult, unitOut, compiled, outcome,
                   synIn, synOut, tierVars, memVars, cacheVars, engineVars>>

StoreResult(u, session_id, result) ==
    /\ unitStore[u].phase # "awaiting"
    /\ unitStore[protocol_analyst].calls + unitStore[market_intelligence].calls
           < MaxStores
    /\ IF session_found(sessions, session_id)
       THEN /\ sessions' = store_agent_result(sessions, session_id, u, result, now)
            /\ unitStore' = [unitStore EXCEPT ![u] =
                    [session_id |-> session_id, result |-> result,
                     raised |-> FALSE,
                     phase |-> IF redis_client = "none" THEN "done"
                               ELSE "awaiting",
                     calls |-> unitStore[u].calls + 1]]
       ELSE \* ValueError
            /\ UNCHANGED sessions
            /\ unitStore' = [unitStore EXCEPT ![u] =
                    [session_id |-> session_id, result |-> result,
                     raised |-> TRUE, phase |-> "done",
                     calls |-> unitStore[u].calls + 1]]
    /\ UNCHANGED <<now, adk, redis_client, redis, pc, run, ustate, attempts,
                   elapsed, waits, execResult, unitOut, compiled, outcome,
                   synIn, synOut, tierVars, evicted, cacheVars, engineVars>>

\* lines 202-213: setex returned, or raised and was logged
StoreCached(u) ==
    /\ unitStore[u].phase = "awaiting"
    /\ unitStore' = [unitStore EXCEPT ![u].phase = "done"]
    /\ UNCHANGED <<now, adk, redis_client, redis, sessions, pc, run, ustate,
                   attempts, elapsed, waits, execResult, unitOut, compiled,
                   outcome, synIn, synOut, tierVars, evicted, cacheVars, engineVars>>

Sweep ==
    /\ sessions' = cleanup_old_sessions(sessions, now, max_age_hours)
    /\ evicted' = evicted \cup (DOMAIN sessions \ DOMAIN sessions')
    /\ UNCHANGED <<now, adk, redis_client, redis, pc, run, ustate, attempts,
                   elapsed, waits, execResult, unitOut, compiled, outcome,
                   synIn, synOut, tierVars, unitStore, cacheVars, engineVars>>

MemNext ==
    \/ MemTick
    \/ \E p \in {"Aave V3"} : CreateSession(p)
    \/ \E u \in AnalysisUnits, session_id \in DOMAIN sessions \cup evicted,
          result \in StoredResults : StoreResult(u, session_id, result)
    \/ \E u \in AnalysisUnits : StoreCached(u)
    \/ Sweep

MemSpec == MemInit /\ [][MemNext]_vars

(***************************************************************************)
(* Concurrent calls of assess_protocol_risk, as far as line 111: each      *)
(* caller's call is given its session id from the subject and the clock,   *)
(* read in whole seconds.  A call is in flight from there to its return;   *)
(* it awaits the cache lookup and the units, so calls overlap.             *)
(***************************************************************************)
RunSubjects == {"Aave V3", "Aave_V3", "FooBar"}

\* protocol_name.replace(' ', '_')
Underscored(protocol_name) ==
    IF protocol_name = "Aave V3" THEN "Aave_V3" ELSE protocol_name

\* line 111: f"assessment_{protocol_name.replace(' ', '_')}_{int(timestamp)}"
generate_session_id(protocol_name, t) ==
    <<"assessment", Underscored(protocol_name), t>>

RunsInit ==
    /\ now = StartTime
    /\ adk = "ok"
    /\ redis_client = "none"
    /\ redis = EmptyMap
    /\ sessions = EmptyMap
    /\ RunInit
    /\ synIn = EmptyMap
    /\ synOut = NoValue
    /\ TierIdle /\ MemIdle /\ CacheIdle /\ EngineIdle

SecTick ==
    /\ secs < MaxSeconds
    /\ secs' = secs + 1
    /\ UNCHANGED <<now, adk, redis_client, redis, sessions, pc, run, ustate,
                   attempts, elapsed, waits, execResult, unitOut, compiled,
                   outcome, synIn, synOut, tierVars, memVars, cacheVars,
                   scoreVars, inflight, histVars>>

StartRun(caller, protocol_name) ==
    /\ inflight[caller] = NoSession
    /\ inflight' = [inflight EXCEPT
                       ![caller] = generate_session_id(protocol_name, secs)]
    /\ UNCHANGED <<now, adk, redis_client, redis, sessions, pc, run, ustate,
                   attempts, elapsed, waits, execResult, unitOut, compiled,
                   outcome, synIn, synOut, tierVars, memVars, cacheVars,
                   scoreVars, secs, histVars>>

EndRun(caller) ==
    /\ inflight[caller] # NoSession
    /\ inflight' = [inflight EXCEPT ![caller] = NoSession]
    /\ UNCHANGED <<now, adk, redis_client, redis, sessions, pc, run, ustate,
                   attempts, elapsed, waits, execResult, unitOut, compiled,
                   outcome, synIn, synOut, tierVars, memVars, cacheVars,
                   scoreVars, secs, histVars>>

RunsNext ==
    \/ SecTick
    \/ \E c \in Callers, p \in RunSubjects : StartRun(c, p)
    \/ \E c \in Callers : EndRun(c)

RunsSpec == RunsInit /\ [][RunsNext]_vars

(***************************************************************************)
(* The long-lived memory of the units: BaseChainGuardAgent.execute (lines  *)
(* 115-168) as far as it reaches _update_memory_from_result, and           *)
(* ADKMemoryManager.update_agent_memory.  An entry of a history is         *)
(* numbered by the count of the unit's appends, so that entries can be     *)
(* told apart.                                                             *)
(***************************************************************************)
max_history == 100

\* variant: the history is never cut
update_agent_memory_untrimmed(memories, agent_id, memory_update) ==
    IF "assessment" \in DOMAIN memory_update
    THEN [memories EXCEPT
             ![agent_id] = Append(@, [assessment |-> memory_update.assessment])]
    ELSE memories

\* lines 249-273; only the history is kept here
update_agent_memory(memories, agent_id, memory_update) ==
    IF "assessment" \in DOMAIN memory_update
    THEN LET h == Append(memories[agent_id],
                         [assessment |-> memory_update.assessment])
         IN [memories EXCEPT
                ![agent_id] = IF Len(h) > max_history
                              THEN SubSeq(h, Len(h) - max_history + 1, Len(h))
                              ELSE h]
    ELSE memories

\* _update_memory_from_result, lines 291-310
update_memory_from_result(memories, agent_id, result, serial) ==
    IF ~result.success THEN memories
    ELSE update_agent_memory(memories, agent_id, [assessment |-> serial])

\* how one call of execute can go: the analysis returns a successful or a
\* failed result, wait_for times out, the analysis raises past the retry
\* loop, or store_agent_result raises (no such session)
ExecutionKinds ==
    {"success", "failed_result", "timeout", "exception", "store_raises"}

\* execute, lines 115-168: the memories after the call
execute_memory(memories, agent_id, kind, serial) ==
    IF kind \in {"success", "failed_result"}
    THEN update_memory_from_result(
             memories, agent_id, [success |-> kind = "success"], serial)
    ELSE memories       \* the handlers at 138 and 153 touch no memory

HistInit ==
    /\ now = StartTime
    /\ adk = "ok"
    /\ redis_client = "none"
    /\ redis = EmptyMap
    /\ sessions = EmptyMap
    /\ RunInit
    /\ synIn = EmptyMap
    /\ synOut = NoValue
    /\ TierIdle /\ MemIdle /\ CacheIdle /\ EngineIdle

ExecuteUnit(u, kind) ==
    /\ SumOver(appended, AnalysisUnits) < MaxUpdates
    /\ agent_memories' = execute_memory(agent_memories, u, kind, appended[u] + 1)
    /\ appended' = IF kind = "success"
                   THEN [appended EXCEPT ![u] = @ + 1] ELSE appended
    /\ lastExec' = [agent_id |-> u, kind |-> kind, before |-> agent_memories[u]]
    /\ UNCHANGED <<now, adk, redis_client, redis, sessions, pc, run, ustate,
                   attempts, elapsed, waits, execResult, unitOut, compiled,
                   outcome, synIn, synOut, tierVars, memVars, cacheVars,
                   scoreVars, runsVars>>

HistNext == \E u \in AnalysisUnits, kind \in ExecutionKinds : ExecuteUnit(u, kind)

HistSpec == HistInit /\ [][HistNext]_vars

(***************************************************************************)
(* Properties.                                                             *)
(***************************************************************************)
PipelineRan == data_hunter \in run.launched
Called(u) == execResult[u].kind # "not_called"
SuccessfulOutputs == {u \in expected_agents : unitOut[u].status = "completed"}

\* C1: every call of assess_protocol_risk returns an assessment value (final,
\* insufficient-data or error-tier) and never lets an exception reach the caller.
C1_NoExceptionReachesCaller ==
    pc = "done" => outcome.kind \in {"cached", "assessment", "error_assessment"}

\* C2: the phases are strictly ordered: an analysis unit is started only after
\* the discovery unit has returned, and the synthesis unit only after both
\* analysis units have returned.
C2_PhasesOrdered ==
    /\ \A u \in AnalysisUnits :
          u \in run.launched => ustate[data_hunter] = "returned"
    /\ risk_synthesizer \in run.launched =>
          \A u \in AnalysisUnits : u \in run.launched /\ ustate[u] = "returned"

C2_Witness ==
    /\ pc = "synthesis"
    /\ ustate[risk_synthesizer] = "running"
    /\ \A u \in AnalysisUnits : attempts[u] >= 1

\* C3: a failed discovery unit (failed result, timeout or exception) does not
\* stop the run: both analysis units are still executed in it.
C3_DiscoveryFailureNonFatal ==
    (pc = "done" /\ PipelineRan /\ ~unitOut[data_hunter].success) =>
        \A u \in AnalysisUnits :
            /\ u \in run.launched
            /\ ustate[u] = "returned"
            /\ adk # "runner_raises" => attempts[u] >= 1

C3_Witness ==
    /\ pc = "done"
    /\ Called(data_hunter)
    /\ execResult[data_hunter].error = "timeout"
    /\ \A u \in AnalysisUnits : attempts[u] >= 1 /\ ustate[u] = "returned"

\* C4: both analysis units are launched together, the phase completes only
\* after both have returned, and a unit that failed never keeps its sibling
\* from completing and delivering its result.
C4_AnalysisJoin ==
    /\ (protocol_analyst \in run.launched) <=> (market_intelligence \in run.launched)
    /\ (pc \in {"synthesis", "done"} /\ PipelineRan) =>
          \A u \in AnalysisUnits :
              /\ ustate[u] = "returned"
              /\ unitOut[u].status \in {"completed", "failed"}
              /\ adk # "runner_raises" => Called(u)
    /\ \A u \in AnalysisUnits :
          (pc = "analysis" /\ ustate[u] = "running") => ENABLED Attempt(u)

C4_Witness ==
    /\ pc = "synthesis"
    /\ Called(protocol_analyst) /\ Called(market_intelligence)
    /\ execResult[protocol_analyst].cause = "analysis_fault"
    /\ execResult[market_intelligence].cause = "session_not_found"

UpstreamSucceeded ==
    {a \in DOMAIN synIn : synIn[a].has_result /\ synIn[a].success}

C6_MinimumUnitsRule ==
    synOut # NoValue =>
        /\ synOut.synthesis_status \in {"final_assessment", "insufficient_data"}
        /\ synOut.synthesis_status = "final_assessment" <=>
              /\ Cardinality(UpstreamSucceeded) >= 2
              /\ UpstreamSucceeded \cap AnalysisUnits # {}

\* C7: the overall score, risk tier and confidence of the assessment returned
\* by a run that executed the pipeline are the ones the synthesis unit computed.
C7_ReturnsSynthesisVerdict ==
    (pc = "done" /\ PipelineRan) =>
        /\ outcome.kind = "assessment"
        /\ unitOut[risk_synthesizer].status = "completed"
        /\ execResult[risk_synthesizer].success
        /\ compiled.overall_risk_score = outcome.overall_risk_score

\* C8: a unit whose execution exceeds the timeout yields, at the timeout bound,
\* a failed result from execute that records the timeout, instead of raising;
\* the unit is back at the bound and the run goes on to its end.
C8_TimeoutYieldsFailedResult ==
    \A u \in Agents :
        (ustate[u] = "returned" /\ Called(u)) =>
            /\ execResult[u].kind = "result"
            /\ elapsed[u] <= AGENT_TIMEOUT_SECONDS
            /\ elapsed[u] = AGENT_TIMEOUT_SECONDS =>
                  /\ ~execResult[u].success
                  /\ execResult[u].error = "timeout"
                  /\ execResult[u].execution_time = AGENT_TIMEOUT_SECONDS
                  /\ unitOut[u].status = "failed"
                  /\ pc \in {"discovery", "analysis", "synthesis", "done",
                            "cancelled"}

C8_Witness ==
    /\ pc = "done"
    /\ ustate[market_intelligence] = "returned"
    /\ Called(market_intelligence)
    /\ execResult[market_intelligence].error = "timeout"
    /\ attempts[market_intelligence] = 2
    /\ risk_synthesizer \in run.launched

\* C9: a unit whose analysis raises is called at most 3 times in all, with a
\* wait of 1s and then 2s between consecutive calls and none after the last;
\* after the third failure execute returns a failed result.
C9_RetryWithBackoff ==
    \A u \in Agents :
        /\ attempts[u] <= 3
        /\ Len(waits[u]) <= 2
        /\ \A i \in 1..Len(waits[u]) : waits[u][i] = 2 ^ (i - 1)
        /\ ustate[u] = "running" => Len(waits[u]) = attempts[u]
        /\ (ustate[u] = "returned" /\ Called(u)) =>
              /\ Len(waits[u]) = attempts[u] - 1
              /\ execResult[u].kind = "result"
              /\ execResult[u].cause = "analysis_fault" =>
                    /\ attempts[u] = 3
                    /\ waits[u] = <<1, 2>>
                    /\ ~execResult[u].success
                    /\ unitOut[u].status = "failed"

C9_Witness ==
    /\ ustate[data_hunter] = "returned"
    /\ Called(data_hunter)
    /\ execResult[data_hunter].cause = "analysis_fault"
    /\ attempts[data_hunter] = 3
    /\ waits[data_hunter] = <<1, 2>>
    /\ pc = "analysis"

\* C10: when the cache lookup at the start of a run returns a fresh entry, that
\* entry is returned and the pipeline is skipped: no unit is executed and no
\* cache write happens in that run.
C10_CacheHitSkipsPipeline ==
    run.cached.kind = "entry" =>
        /\ pc = "done"
        /\ outcome = [kind |-> "cached", value |-> run.cached]
        /\ run.launched = {}
        /\ \A u \in Agents : ustate[u] = "idle" /\ attempts[u] = 0
        /\ ~run.wrote
        /\ run.cache_key \in DOMAIN redis /\ redis[run.cache_key] = run.cached

C10_Witness ==
    /\ pc = "done"
    /\ outcome.kind = "cached"
    /\ outcome.value.timestamp = StartTime - TickStep
    /\ run.protocol_name = "Aave V3"

\* C11: when the backing store is absent or its reads and writes raise, the
\* lookup is a miss, nothing is written, and the run of a supported subject
\* still executes the pipeline and returns an assessment.
C11_CacheUnavailabilityNeverFails ==
    (pc = "done" /\ redis_client \in {"none", "down"}
                 /\ is_supported(run.protocol_name)) =>
        /\ run.cached = Miss
        /\ ~run.wrote
        /\ redis = EmptyMap
        /\ PipelineRan
        /\ outcome.kind \in {"assessment", "error_assessment"}

\* C12: a read for the same subject on the same day within the TTL of a write
\* returns an object equivalent to the assessment written, field by field; a
\* read after the TTL has expired returns a miss.
AssessmentFields ==
    {"protocol", "overall_risk_score", "risk_level", "confidence",
     "component_scores"}

C12_CacheRoundTrip ==
    (readBack # NoValue /\ readBack.cache_key \in DOMAIN written) =>
        LET w == written[readBack.cache_key] IN
        IF readBack.at - w.at < 10
        THEN /\ readBack.value.kind = "entry"
             /\ \A f \in AssessmentFields : readBack.value[f] = w.assessment[f]
        ELSE readBack.value = Miss

\* C16: when the two analysis units append to the same session concurrently,
\* then in every interleaving each unit's entry is present under its own id
\* and holds exactly what that unit stored last; no append of the other unit
\* removes or changes it.
C16_ConcurrentAppend ==
    \A u \in AnalysisUnits :
        LET st == unitStore[u] IN
        (st.phase # "none" /\ ~st.raised /\ st.session_id \in DOMAIN sessions) =>
            /\ u \in DOMAIN sessions[st.session_id].agent_results
            /\ sessions[st.session_id].agent_results[u].result = st.result
            /\ sessions[st.session_id].agent_results[u].agent_id = u

C16_Witness ==
    /\ redis_client = "up"
    /\ unitStore[protocol_analyst].phase = "awaiting"
    /\ unitStore[market_intelligence].phase = "done"
    /\ ~unitStore[protocol_analyst].raised
    /\ ~unitStore[market_intelligence].raised
    /\ unitStore[protocol_analyst].session_id
           = unitStore[market_intelligence].session_id
    /\ unitStore[protocol_analyst].result # unitStore[market_intelligence].result
    /\ unitStore[protocol_analyst].session_id \in DOMAIN sessions
    /\ DOMAIN sessions[unitStore[protocol_analyst].session_id].agent_results
           = AnalysisUnits

\* C17: a session is append-only: a step that keeps a session keeps every
\* entry stored in it, unchanged; stores only add entries.
C17_AppendOnly ==
    [][\A s \in DOMAIN sessions :
          s \in DOMAIN sessions' =>
              \A a \in DOMAIN sessions[s].agent_results :
                  /\ a \in DOMAIN sessions'[s].agent_results
                  /\ sessions'[s].agent_results[a] = sessions[s].agent_results[a]
      ]_vars

\* C18: once the sweep has removed a session, a store under its id raises,
\* leaves the session store as it was and does not bring the session back, and
\* reading the results of that id gives the empty dict.
C18_NoResumeAfterEviction ==
    [][/\ \A u \in AnalysisUnits, session_id \in evicted, result \in StoredResults :
             StoreResult(u, session_id, result) =>
                 /\ unitStore'[u].raised
                 /\ sessions' = sessions
       /\ \A session_id \in evicted :
             /\ session_id \notin DOMAIN sessions'
             /\ get_agent_results(sessions', session_id) = EmptyMap
      ]_vars

C18_Witness ==
    \E u \in AnalysisUnits :
        /\ unitStore[u].session_id \in evicted
        /\ unitStore[u].raised
        /\ unitStore[u].calls = 2

\* C19 as stated: the sweep removes exactly the sessions whose age, the time
\* since their creation, exceeds max_age_hours, and leaves the others as they were.
C19_SweepByAge ==
    [][Sweep =>
          /\ DOMAIN sessions' =
                 {s \in DOMAIN sessions :
                     ~(now - sessions[s].created_at > 24 * 60)}
          /\ \A s \in DOMAIN sessions' : sessions'[s] = sessions[s]
      ]_vars

\* C19 amended: the sweep removes exactly the sessions whose last update is
\* more than max_age_hours ago, and leaves the others as they were.
C19_SweepByLastUpdate ==
    [][Sweep =>
          /\ DOMAIN sessions' =
                 {s \in DOMAIN sessions :
                     ~(now - sessions[s].updated_at > 24 * 60)}
          /\ \A s \in DOMAIN sessions' : sessions'[s] = sessions[s]
      ]_vars

C19_Witness ==
    /\ evicted # {}
    /\ \E s \in DOMAIN sessions :
          /\ now - sessions[s].created_at > 24 * 60
          /\ now - sessions[s].updated_at = 24 * 60
          /\ sessions[s].agent_results # EmptyMap

\* C13: the context given to an analysis unit contains the discovery unit's
\* result whenever discovery produced one in the run, and the context given to
\* the synthesis unit contains every result the discovery and analysis units
\* produced, failed ones included.
C13_ContextCarriesResults ==
    /\ \A u \in AnalysisUnits :
          (Called(u) /\ unitOut[data_hunter].has_result) =>
              data_hunter \in DOMAIN context_previous_results(run.session_id)
    /\ Called(risk_synthesizer) =>
          \A u \in expected_agents :
              unitOut[u].has_result =>
                  u \in DOMAIN context_previous_results(run.session_id)

\* C14: when a unit's analysis completes within the timeout in a run started
\* by assess_protocol_risk, its result is in the run's session under the
\* unit's id and the scheduler gets the success flag the analysis produced.
C14_ResultStoredInSession ==
    \A u \in Agents :
        (/\ ustate[u] = "returned" /\ Called(u)
         /\ execResult[u].error # "timeout"
         /\ execResult[u].cause \notin {"analysis_fault", "CancelledError"}) =>
            /\ run.session_id \in DOMAIN sessions
            /\ u \in DOMAIN get_agent_results(sessions, run.session_id)
            /\ execResult[u].error \in {"none", "analysis"}
            /\ unitOut[u].success = execResult[u].success

\* C15: once the caller has cancelled a run with units in flight, no unit is
\* left running, the units that were in flight are cancelled, the run is in
\* its cancelled state with the cancellation as its outcome, and no assessment
\* was compiled or cached.
C15_CancellationEndsRun ==
    run.cancel_requested =>
        /\ pc = "cancelled"
        /\ outcome = Cancelled
        /\ \A u \in Agents : ustate[u] # "running"
        /\ \E u \in run.launched : ustate[u] = "cancelled"
        /\ compiled = NoValue
        /\ ~run.wrote

C15_Witness ==
    /\ pc = "cancelled"
    /\ ustate[data_hunter] = "returned"
    /\ ustate[protocol_analyst] = "cancelled"
    /\ ustate[market_intelligence] = "cancelled"
    /\ attempts[protocol_analyst] = 1
    /\ redis_client = "up"

\* C20: the tier of a completed synthesis is LOW for a score up to 30, MEDIUM
\* for a score above 30 and up to 70, HIGH above 70 (scores in hundredths).
C20_TierOfScore ==
    synData # NoValue =>
        synData.risk_level =
            IF synData.final_risk_score <= 3000 THEN "LOW"
            ELSE IF synData.final_risk_score <= 7000 THEN "MEDIUM"
            ELSE "HIGH"

C20_Witness ==
    /\ synOut # NoValue
    /\ synOut.synthesis_status = "final_assessment"
    /\ synData # NoValue
    /\ synData.final_risk_score = 7000
    /\ synData.risk_level = "MEDIUM"

(***************************************************************************)
(* Claims about the synthesis engine (ScoreSpec).                          *)
(***************************************************************************)
\* the syntheses of scoreIn that produced a final assessment
Syntheses == {scoreOut[i] : i \in {j \in 1..Len(scoreOut) : scoreOut[j].success}}

\* the components whose score came from a successful unit (lines 514-517)
GenuineComponents(risk_components) ==
    {c \in DOMAIN risk_components :
        risk_components[c].source \notin default_sources}

\* the unit whose result feeds a category (lines 355, 392, 428, 464)
FedBy(component) ==
    IF component = "financial_risk" THEN market_intelligence
    ELSE IF component = "technical_risk" THEN data_hunter
    ELSE protocol_analyst

\* C21: two syntheses of the same unchanged unit results give identical
\* assessments: same score, tier, confidence, components, consensus report
\* and findings lists.
C21_SynthesisIdempotent ==
    \A i, j \in 1..Len(scoreOut) : scoreOut[i] = scoreOut[j]

\* C22 as stated: when all components come from successful units and have
\* the same score S, the final score is S and the overall consensus is 1.0,
\* for every S of the score range.
C22_IdenticalScores ==
    \A o \in Syntheses :
        \A S \in 0..100 :
            (/\ GenuineComponents(o.risk_components) = DOMAIN o.risk_components
             /\ \A c \in DOMAIN o.risk_components : o.risk_components[c].score = S)
            => /\ o.final_risk_score = S * ScoreScale
               /\ o.consensus_analysis.overall_consensus = Ratio(1, 1)

\* C22 amended: under the same condition the final score is S; the overall
\* consensus is 1.0 when S > 0 and the neutral 0.5 when S = 0.
C22_IdenticalPositiveScores ==
    \A o \in Syntheses :
        \A S \in 0..100 :
            (/\ GenuineComponents(o.risk_components) = DOMAIN o.risk_components
             /\ \A c \in DOMAIN o.risk_components : o.risk_components[c].score = S)
            => /\ o.final_risk_score = S * ScoreScale
               /\ o.consensus_analysis.overall_consensus =
                      IF S > 0 THEN Ratio(1, 1) ELSE Ratio(1, 2)

C22_Witness ==
    \E o \in Syntheses :
        /\ GenuineComponents(o.risk_components) = DOMAIN o.risk_components
        /\ \A c \in DOMAIN o.risk_components : o.risk_components[c].score = 40
        /\ \E c \in DOMAIN o.risk_components : o.risk_components[c].confidence = 5
        /\ \E c \in DOMAIN o.risk_components : o.risk_components[c].confidence = 9
        /\ o.final_risk_score = 40 * ScoreScale
        /\ o.consensus_analysis.overall_consensus = Ratio(1, 1)

C24_WeightedMean ==
    \A o \in Syntheses :
        LET rc == o.risk_components
            C == DOMAIN rc
            ew == [c \in C |-> rc[c].weight * rc[c].confidence]
            ws == [c \in C |-> rc[c].score * ew[c]]
            sc == [c \in C |-> rc[c].score]
            T == SumOver(ew, C)
            diff == IF T > 0
                    THEN o.final_risk_score * T - ScoreScale * SumOver(ws, C)
                    ELSE o.final_risk_score * Cardinality(C)
                         - ScoreScale * SumOver(sc, C)
            den == IF T > 0 THEN T ELSE Cardinality(C)
        IN /\ 2 * diff <= den
           /\ -2 * diff <= den
           /\ \A k \in 2..3 :
                calculate_weighted_risk_score(
                    calculate_risk_components(
                        scoreIn, [c \in DOMAIN risk_weights |-> k * risk_weights[c]]))
                = o.final_risk_score

C24_Witness ==
    \E o \in Syntheses :
        /\ o.risk_components["technical_risk"].score = 20
        /\ o.risk_components["technical_risk"].confidence = 9
        /\ o.risk_components["financial_risk"].score = 80
        /\ o.risk_components["financial_risk"].confidence = 5
        /\ o.risk_components["security_risk"].source = "default_conservative"
        \* (20*20*9 + 80*30*5 + 75*35*2 + 65*15*2) / (20*9 + 30*5 + 35*2 + 15*2)
        \* = 22800 / 430 = 53.02, where the unweighted figure would be 64.00
        /\ o.final_risk_score = 5302

\* C25: over the component scores that came from successful units, at least
\* two of them, the spread max - min falls in exactly one band: below 20 a
\* strong-consensus agreement, from 20 to below 40 a moderate-consensus
\* agreement, 40 or more a conflict.
C25_ConsensusBands ==
    \A o \in Syntheses :
        LET rc == o.risk_components
            G == GenuineComponents(rc)
            spread == MaxOf({rc[c].score : c \in G}) - MinOf({rc[c].score : c \in G})
            ca == o.consensus_analysis
        IN Cardinality(G) >= 2 =>
            /\ Len(ca.agreements) + Len(ca.conflicts) = 1
            /\ spread < 20 =>
                 ca.agreements = <<[text |-> "Strong consensus on risk level",
                                    range |-> spread]>>
            /\ (spread >= 20 /\ spread < 40) =>
                 ca.agreements = <<[text |-> "Moderate consensus on risk level",
                                    range |-> spread]>>
            /\ spread >= 40 =>
                 ca.conflicts = <<[text |-> "Significant disagreement on risk level",
                                   range |-> spread]>>

C25_Witness ==
    \E o \in Syntheses :
        /\ {o.risk_components[c].score : c \in GenuineComponents(o.risk_components)}
               = {20, 80}
        /\ o.consensus_analysis.agreements = <<>>
        /\ o.consensus_analysis.conflicts =
               <<[text |-> "Significant disagreement on risk level", range |-> 60]>>

(***************************************************************************)
(* Claims about the cache write (CacheSpec) and about the runs (Spec).     *)
(***************************************************************************)
\* C29: writing an assessment to the cache does not alter it: the assessment
\* the caller gets has exactly the fields and values that were compiled.
C29_CacheWriteLeavesAssessment ==
    held # NoValue => held.returned = held.compiled

\* C27: for a subject the validator does not support (and no cache hit),
\* assess_protocol_risk returns the unsupported-protocol error assessment,
\* executes no unit and does not write the cache.
C27_UnsupportedSubject ==
    (pc = "done" /\ ~is_supported(run.protocol_name) /\ ~cache_hit(run.cached)) =>
        /\ outcome.kind = "error_assessment"
        /\ outcome.error_type = "unsupported_protocol"
        /\ run.launched = {}
        /\ \A u \in Agents : execResult[u] = NotCalled /\ attempts[u] = 0
        /\ ~run.wrote

\* C28: two runs in flight at the same time never have the same session id.
C28_DistinctRunIds ==
    \A c1, c2 \in Callers :
        (c1 # c2 /\ inflight[c1] # NoSession /\ inflight[c2] # NoSession)
            => inflight[c1] # inflight[c2]

(***************************************************************************)
(* Claims about the units' long-lived memory (HistSpec).                   *)
(***************************************************************************)
\* C30: a unit's history never holds more than 100 entries, they are the
\* most recently appended ones in the order of their appends, and an
\* execution that did not succeed leaves the history as it was.
C30_HistoryBounded ==
    /\ \A u \in AnalysisUnits :
        LET h == agent_memories[u] IN
        /\ Len(h) <= 100
        /\ Len(h) = IF appended[u] <= 100 THEN appended[u] ELSE 100
        /\ \A i \in 1..Len(h) : h[i].assessment = appended[u] - Len(h) + i
    /\ (lastExec # NoValue /\ lastExec.kind # "success") =>
            agent_memories[lastExec.agent_id] = lastExec.before

C30_Witness ==
    /\ appended[protocol_analyst] = 101
    /\ Len(agent_memories[protocol_analyst]) = 100
    /\ agent_memories[protocol_analyst][1].assessment = 2
    /\ agent_memories[protocol_analyst][100].assessment = 101
    /\ lastExec.kind = "timeout"
    /\ lastExec.agent_id = protocol_analyst

====
